---- MODULE Spec2Model ----
(***************************************************************************)
(* NeoShell command parser and pipeline executor (src/parser.py).          *)
(*                                                                         *)
(* Strings are sequences of one-character strings, so that tokenizing,     *)
(* splitting on '|' and trimming are computed, not assumed.                *)
(***************************************************************************)
EXTENDS Integers, Sequences, FiniteSets, TLC

VARIABLES
    tokens,      \* the token list parse_command scans (result of shlex.split)
    line,        \* the command string given to parse_pipeline
    parsed,      \* the dictionary returned by the parser
    ppc,         \* parser position: "input" before the call, "parsed" after it
    mode,        \* which executor runs: "external" or "pipeline"
    pipeline,    \* the list of parsed commands given to the executor
    pc,          \* executor position: "launch", "wait", "done" ("idle": not called)
    loop_i,      \* the launch loop's index i (1-based)
    w,           \* index in processes of the stage the wait loop is at
    processes,   \* stages whose Popen succeeded, in launch order
    prev_stdout, \* stage whose stdout pipe the parent holds for the next stage, 0 for None
    child,       \* per stage: "none", "running", "exited" (not reaped), "reaped"
    errVol,      \* per stage: amount of text the child writes to standard error
    errLeft,     \* per stage: amount the child has still to write
    errBuf,      \* per stage: amount sitting in the standard-error pipe
    returncode,  \* exit codes of the stages that have exited
    open,        \* handles the parent holds open
    opened,      \* every handle the parent has opened during the call
    wiring,      \* per started stage: what its stdin and stdout are
    ret,         \* what the call returned
    msg,         \* what print_error was given
    failure,     \* what the operating system refused: kind and stage
    interrupted, \* KeyboardInterrupt was raised in the parent during the call
    emitted      \* stages whose standard-error text was printed, in order

parseVars == <<tokens, line, parsed, ppc>>
execVars == <<mode, pipeline, pc, loop_i, w, processes, prev_stdout, child, errVol, errLeft,
              errBuf, returncode, open, opened, wiring, ret, msg, failure, interrupted,
              emitted>>
vars == <<parseVars, execVars>>

(***************************************************************************)
(* Bounds of the model.                                                    *)
(***************************************************************************)
MaxTokens == 5
MaxLine == 5
MaxStages == 2
\* Capacity of an operating-system pipe, in units of text.
PipeCap == 1

(***************************************************************************)
(* Characters and tokens.                                                  *)
(***************************************************************************)
SPACE == " "
BAR == "|"
QUOTE == "'"
GT == <<">">>
GTGT == <<">", ">">>
LT == <<"<">>

\* Python's None: no token (a sequence of single characters) equals it.
None == <<"None">>

LineChars == {"a", SPACE, BAR, ">", QUOTE}
TokenSet == {<<"a">>, <<"b">>, GT, GTGT, LT}

RECURSIVE SeqsUpTo(_, _)
SeqsUpTo(S, n) ==
    IF n = 0 THEN {<<>>}
    ELSE LET shorter == SeqsUpTo(S, n - 1)
         IN  shorter \cup {Append(s, x) : s \in {t \in shorter : Len(t) = n - 1}, x \in S}

(***************************************************************************)
(* shlex.split(command_str): POSIX mode, whitespace_split, no comments.    *)
(* state is " " between words, "a" inside a word, "'" inside quotes.       *)
(***************************************************************************)
RECURSIVE shlex_scan(_, _, _, _, _)
shlex_scan(s, i, state, tok, out) ==
    IF i > Len(s)
    THEN IF state = QUOTE THEN [ok |-> FALSE, tokens |-> <<>>]
         ELSE IF state = "a" THEN [ok |-> TRUE, tokens |-> Append(out, tok)]
         ELSE [ok |-> TRUE, tokens |-> out]
    ELSE LET c == s[i] IN
         IF state = QUOTE
         THEN IF c = QUOTE THEN shlex_scan(s, i + 1, "a", tok, out)
              ELSE shlex_scan(s, i + 1, QUOTE, Append(tok, c), out)
         ELSE IF c = SPACE
         THEN IF state = "a" THEN shlex_scan(s, i + 1, " ", <<>>, Append(out, tok))
              ELSE shlex_scan(s, i + 1, " ", <<>>, out)
         ELSE IF c = QUOTE THEN shlex_scan(s, i + 1, QUOTE, tok, out)
         ELSE shlex_scan(s, i + 1, "a", Append(tok, c), out)

shlex_split(s) == shlex_scan(s, 1, " ", <<>>, <<>>)

(***************************************************************************)
(* parse_command.                                                          *)
(***************************************************************************)
SyntaxError == [error |-> <<"Syntax error">>]
EmptyCommand == [error |-> <<"Empty command">>]

MissingFilenameWrongOp(op) == [error |-> <<"Missing filename after", GT>>]
MissingFilename(op) == [error |-> <<"Missing filename after", op>>]

NewResult(toks) ==
    [command |-> toks[1], args |-> <<>>, input_file |-> None,
     output_file |-> None, append |-> FALSE]

AppendArgFront(result, tok) == [result EXCEPT !.args = <<tok>> \o @]
AppendArg(result, tok) == [result EXCEPT !.args = Append(@, tok)]

\* The while loop of parse_command, from index i (1-based) on.
RECURSIVE scan(_, _, _)
scan(toks, i, result) ==
    IF ~(i <= Len(toks)) THEN result
    ELSE IF toks[i] = GT
    THEN IF i + 1 <= Len(toks)
         THEN scan(toks, i + 2, [result EXCEPT !.output_file = toks[i + 1]])
         ELSE MissingFilename(GT)
    ELSE IF toks[i] = GTGT
    THEN IF i + 1 <= Len(toks)
         THEN scan(toks, i + 2, [result EXCEPT !.output_file = toks[i + 1],
                                               !.append = TRUE])
         ELSE MissingFilename(GTGT)
    ELSE IF toks[i] = LT
    THEN IF i + 1 <= Len(toks)
         THEN scan(toks, i + 2, [result EXCEPT !.input_file = toks[i + 1]])
         ELSE MissingFilename(LT)
    ELSE scan(toks, i + 1, AppendArg(result, toks[i]))

\* parse_command after tokenizing: lines 19-55.
parse_tokens(toks) ==
    IF toks = <<>> THEN EmptyCommand ELSE scan(toks, 2, NewResult(toks))

parse_command(command_str) ==
    LET split == shlex_split(command_str)
    IN  IF ~split.ok THEN SyntaxError ELSE parse_tokens(split.tokens)

IsError(r) == "error" \in DOMAIN r

(***************************************************************************)
(* parse_pipeline.                                                         *)
(***************************************************************************)
\* str.split('|')
RECURSIVE split_bar(_, _, _, _)
split_bar(s, i, cur, out) ==
    IF i > Len(s) THEN Append(out, cur)
    ELSE IF s[i] = BAR THEN split_bar(s, i + 1, <<>>, Append(out, cur))
    ELSE split_bar(s, i + 1, Append(cur, s[i]), out)

split(s) == split_bar(s, 1, <<>>, <<>>)

\* str.strip()
RECURSIVE lstrip(_)
lstrip(s) == IF s # <<>> /\ Head(s) = SPACE THEN lstrip(Tail(s)) ELSE s

RECURSIVE rstrip(_)
rstrip(s) ==
    IF s # <<>> /\ s[Len(s)] = SPACE THEN rstrip(SubSeq(s, 1, Len(s) - 1)) ELSE s

strip(s) == rstrip(lstrip(s))

EmptyInPipeline == [error |-> <<"Empty command in pipeline">>]

\* The for loop of parse_pipeline, from segment k on.
RECURSIVE pipeline_loop(_, _, _)
pipeline_loop(segs, k, commands) ==
    IF k > Len(segs) THEN [pipeline |-> commands]
    ELSE LET cmd == strip(segs[k]) IN
         IF cmd = <<>> THEN EmptyInPipeline
         ELSE LET one == parse_command(cmd) IN
              IF IsError(one) THEN one
              ELSE pipeline_loop(segs, k + 1, Append(commands, one))

NonBlank(seg) == strip(seg) # <<>>

parse_pipeline_skip_empty(command_str) ==
    pipeline_loop(SelectSeq(split(command_str), NonBlank), 1, <<>>)
parse_pipeline(command_str) == pipeline_loop(split(command_str), 1, <<>>)

(***************************************************************************)
(* Executors: execute_external and execute_pipeline.                       *)
(*                                                                         *)
(* The parent is the shell process; each stage that Popen starts is a      *)
(* child process that writes errVol units of text to its standard-error    *)
(* pipe (blocking while the pipe is full) and then exits.  open holds the  *)
(* handles the parent has opened and not closed itself.                    *)
(***************************************************************************)
EXIT_OK == 0
EXIT_ERROR == 1
EXIT_DENIED == 126
EXIT_NOT_FOUND == 127

InPath == <<"i">>
OutPath == <<"o">>
Command == <<"a">>

\* Descriptors given to the executors: the redirections parse_command returns
\* for 'a', 'a < i', 'a > o' and 'a < i >> o'.
Redirections ==
    {[input_file |-> None, output_file |-> None, append |-> FALSE],
     [input_file |-> InPath, output_file |-> None, append |-> FALSE],
     [input_file |-> None, output_file |-> OutPath, append |-> FALSE],
     [input_file |-> InPath, output_file |-> OutPath, append |-> TRUE]}

StageDescs ==
    {[command |-> Command, args |-> <<>>, input_file |-> r.input_file,
      output_file |-> r.output_file, append |-> r.append] : r \in Redirections}

ExitCodes == {EXIT_OK, EXIT_ERROR}
\* A child writes nothing, as much as the pipe holds, or more than it holds.
ErrVolumes == {0, PipeCap, PipeCap + 1}
PopenErrors == {"FileNotFoundError", "PermissionError", "OSError"}

Stages == 1..Len(pipeline)

Handle(kind, stage, m) == [kind |-> kind, stage |-> stage, mode |-> m]
InputHandle == Handle("input_file", 1, "r")
OutputHandle(cmd, stage) ==
    Handle("output_file", stage, IF cmd.append THEN "a" ELSE "w")
StdoutPipe(stage) == Handle("stdout", stage, "r")
StderrPipe(stage) == Handle("stderr", stage, "r")

Pending == [kind |-> "pending"]
Returned(code) == [kind |-> "code", code |-> code]
ReturnedNone == [kind |-> "None"]
Raised == [kind |-> "KeyboardInterrupt"]

NoMessage == [text |-> "", about |-> None]
NoFailure == [kind |-> "none", stage |-> 0]

\* The except clauses of execute_external.
external_except(exc, cmd) ==
    IF exc = "FileNotFoundError"
    THEN [ret |-> Returned(EXIT_NOT_FOUND),
          msg |-> [text |-> "Command not found: ", about |-> cmd.command]]
    ELSE IF exc = "PermissionError"
    THEN [ret |-> Returned(EXIT_DENIED),
          msg |-> [text |-> "Permission denied: ", about |-> cmd.command]]
    ELSE [ret |-> Returned(EXIT_ERROR), msg |-> [text |-> "Error: ", about |-> None]]

\* The except clauses of execute_pipeline.
pipeline_except(exc, cmd) ==
    IF exc = "FileNotFoundError"
    THEN [ret |-> Returned(EXIT_NOT_FOUND),
          msg |-> [text |-> "Command not found in pipeline", about |-> None]]
    ELSE [ret |-> Returned(EXIT_ERROR),
          msg |-> [text |-> "Pipeline error: ", about |-> None]]

\* Which files a stage of the pipeline loop opens.
StdinFromFileAnyStage(cmd, idx) == cmd.input_file # None
StdinFromFile(cmd, idx) == idx = 1 /\ cmd.input_file # None
StdoutToFile(cmd, idx) == idx = Len(pipeline) /\ cmd.output_file # None

InputHandles(cmd, idx) == IF StdinFromFile(cmd, idx) THEN {InputHandle} ELSE {}
OutputHandles(cmd, idx) ==
    IF StdoutToFile(cmd, idx) THEN {OutputHandle(cmd, idx)} ELSE {}

\* An exception leaves the executor through its except clauses; the files in
\* held were opened by this step before the exception was raised.
Abort(handled, kind, held) ==
    /\ pc' = "done"
    /\ ret' = handled.ret
    /\ msg' = handled.msg
    /\ failure' = [kind |-> kind, stage |-> loop_i]
    /\ open' = open \cup held
    /\ opened' = opened \cup held
    /\ UNCHANGED parseVars
    /\ UNCHANGED <<mode, pipeline, loop_i, w, processes, prev_stdout, child, errVol,
                   errLeft, errBuf, returncode, wiring, interrupted, emitted>>

(***************************************************************************)
(* execute_pipeline: one iteration of the launch loop.                     *)
(***************************************************************************)
InPipelineLoop == mode = "pipeline" /\ pc = "launch" /\ loop_i <= Len(pipeline)

\* open(input_file) raises FileNotFoundError.
PipelineInputMissing ==
    /\ InPipelineLoop
    /\ StdinFromFile(pipeline[loop_i], loop_i)
    /\ Abort(pipeline_except("FileNotFoundError", pipeline[loop_i]), "input_missing", {})

\* open(output_file) raises PermissionError.
PipelineOutputDenied ==
    /\ InPipelineLoop
    /\ StdoutToFile(pipeline[loop_i], loop_i)
    /\ Abort(pipeline_except("PermissionError", pipeline[loop_i]), "output_denied",
             InputHandles(pipeline[loop_i], loop_i))

\* Popen raises: the program is not found, may not be run, or the system
\* refuses.  Popen closes the pipes it made itself.
PipelinePopenFails ==
    /\ InPipelineLoop
    /\ \E exc \in PopenErrors :
          Abort(pipeline_except(exc, pipeline[loop_i]), exc,
                InputHandles(pipeline[loop_i], loop_i) \cup OutputHandles(pipeline[loop_i], loop_i))

\* processes.append(proc)
append_process_front(procs, k) == <<k>> \o procs
append_process(procs, k) == Append(procs, k)

\* if prev_stdout: prev_stdout.close()
keep_prev_stdout(handles) == handles
close_prev_stdout(handles) ==
    handles \ (IF prev_stdout # 0 THEN {StdoutPipe(prev_stdout)} ELSE {})

\* The iteration completes: files opened, child started, the previous pipe
\* end closed, the new one kept.
LaunchStage ==
    /\ InPipelineLoop
    /\ LET cmd == pipeline[loop_i]
           last == loop_i = Len(pipeline)
           files == InputHandles(cmd, loop_i) \cup OutputHandles(cmd, loop_i)
           made == files \cup {StderrPipe(loop_i)} \cup (IF last THEN {} ELSE {StdoutPipe(loop_i)})
           stdin == IF StdinFromFile(cmd, loop_i) THEN InputHandle
                    ELSE IF prev_stdout # 0 THEN StdoutPipe(prev_stdout)
                    ELSE None
           stdout == IF last
                     THEN IF StdoutToFile(cmd, loop_i) THEN OutputHandle(cmd, loop_i) ELSE None
                     ELSE StdoutPipe(loop_i)
       IN  /\ \E vol \in ErrVolumes :
                /\ errVol' = [errVol EXCEPT ![loop_i] = vol]
                /\ errLeft' = [errLeft EXCEPT ![loop_i] = vol]
           /\ child' = [child EXCEPT ![loop_i] = "running"]
           /\ wiring' = [wiring EXCEPT ![loop_i] = [stdin |-> stdin, stdout |-> stdout]]
           /\ processes' = append_process(processes, loop_i)
           /\ open' = close_prev_stdout(open \cup made)
           /\ opened' = opened \cup made
           /\ prev_stdout' = IF last THEN 0 ELSE loop_i
           /\ loop_i' = loop_i + 1
           /\ pc' = IF last THEN "wait" ELSE "launch"
    /\ UNCHANGED parseVars
    /\ UNCHANGED <<mode, pipeline, w, errBuf, returncode, ret, msg, failure,
                   interrupted, emitted>>

(***************************************************************************)
(* execute_pipeline: one iteration of the wait loop, and the return after  *)
(* the last one.  proc.wait() returns once the child has exited.           *)
(***************************************************************************)
WaitStage ==
    /\ mode = "pipeline"
    /\ pc = "wait"
    /\ w <= Len(processes)
    /\ child[processes[w]] = "exited"
    /\ child' = [child EXCEPT ![processes[w]] = "reaped"]
    /\ errBuf' = [errBuf EXCEPT ![processes[w]] = 0]
    /\ emitted' = IF errVol[processes[w]] > 0 THEN Append(emitted, processes[w])
                  ELSE emitted
    /\ w' = w + 1
    /\ IF w = Len(processes)
       THEN pc' = "done" /\ ret' = Returned(EXIT_OK)
       ELSE UNCHANGED <<pc, ret>>
    /\ UNCHANGED parseVars
    /\ UNCHANGED <<mode, pipeline, loop_i, processes, prev_stdout, errVol, errLeft,
                   returncode, open, opened, wiring, msg, failure, interrupted>>

(***************************************************************************)
(* execute_external.                                                       *)
(***************************************************************************)
InExternal == mode = "external" /\ pc = "launch"

\* The same with the output file opened first.
ExternalInputMissingAfterOutput ==
    /\ mode = "external" /\ pc = "launch"
    /\ pipeline[1].input_file # None
    /\ Abort([ret |-> ReturnedNone,
              msg |-> [text |-> "Input file not found: ",
                       about |-> pipeline[1].input_file]],
             "input_missing", OutputHandles(pipeline[1], 1))

\* open(input_file) raises FileNotFoundError: reported, bare return.
ExternalInputMissing ==
    /\ InExternal
    /\ pipeline[1].input_file # None
    /\ Abort([ret |-> ReturnedNone,
              msg |-> [text |-> "Input file not found: ",
                       about |-> pipeline[1].input_file]],
             "input_missing", {})

\* open(output_file) raises PermissionError.
ExternalOutputDenied ==
    /\ InExternal
    /\ pipeline[1].output_file # None
    /\ Abort(external_except("PermissionError", pipeline[1]), "output_denied",
             InputHandles(pipeline[1], 1))

\* subprocess.run raises from Popen.
ExternalPopenFails ==
    /\ InExternal
    /\ \E exc \in PopenErrors :
          Abort(external_except(exc, pipeline[1]), exc,
                InputHandles(pipeline[1], 1) \cup OutputHandles(pipeline[1], 1))

\* subprocess.run has started the child and is in communicate().
ExternalRun ==
    /\ InExternal
    /\ LET cmd == pipeline[1]
           files == InputHandles(cmd, 1) \cup OutputHandles(cmd, 1)
           made == files \cup {StderrPipe(1)}
       IN  /\ \E vol \in ErrVolumes :
                /\ errVol' = [errVol EXCEPT ![1] = vol]
                /\ errLeft' = [errLeft EXCEPT ![1] = vol]
           /\ child' = [child EXCEPT ![1] = "running"]
           /\ wiring' = [wiring EXCEPT ![1] =
                 [stdin |-> IF cmd.input_file # None THEN InputHandle ELSE None,
                  stdout |-> IF cmd.output_file # None THEN OutputHandle(cmd, 1)
                             ELSE None]]
           /\ processes' = <<1>>
           /\ open' = open \cup made
           /\ opened' = opened \cup made
    /\ pc' = "wait"
    /\ UNCHANGED parseVars
    /\ UNCHANGED <<mode, pipeline, loop_i, w, prev_stdout, errBuf, returncode, ret, msg,
                   failure, interrupted, emitted>>

\* communicate() reads the standard-error pipe while the child runs.
ExternalDrain ==
    /\ mode = "external"
    /\ pc = "wait"
    /\ errBuf[1] > 0
    /\ errBuf' = [errBuf EXCEPT ![1] = 0]
    /\ UNCHANGED parseVars
    /\ UNCHANGED <<mode, pipeline, pc, loop_i, w, processes, prev_stdout, child, errVol,
                   errLeft, returncode, open, opened, wiring, ret, msg, failure,
                   interrupted, emitted>>

\* subprocess.run returns; the files are closed; the exit code is returned.
ExternalFinish ==
    /\ mode = "external"
    /\ pc = "wait"
    /\ child[1] = "exited"
    /\ child' = [child EXCEPT ![1] = "reaped"]
    /\ errBuf' = [errBuf EXCEPT ![1] = 0]
    /\ open' = (open \ {StderrPipe(1)}) \ {InputHandle, OutputHandle(pipeline[1], 1)}
    /\ emitted' = IF errVol[1] > 0 THEN <<1>> ELSE emitted
    /\ ret' = Returned(returncode[1])
    /\ pc' = "done"
    /\ UNCHANGED parseVars
    /\ UNCHANGED <<mode, pipeline, loop_i, w, processes, prev_stdout, errVol, errLeft,
                   returncode, opened, wiring, msg, failure, interrupted>>

(***************************************************************************)
(* KeyboardInterrupt in the parent.  It is not an Exception, so neither    *)
(* executor catches it; NeoShell.run does.  subprocess.run kills and waits *)
(* for its child; Popen.wait does neither.                                 *)
(***************************************************************************)
Interrupt ==
    /\ pc \in {"launch", "wait"}
    /\ interrupted' = TRUE
    /\ ret' = Raised
    /\ pc' = "done"
    /\ IF mode = "external" /\ pc = "wait"
       THEN /\ child' = [child EXCEPT ![1] = "reaped"]
            /\ errBuf' = [errBuf EXCEPT ![1] = 0]
            /\ open' = open \ {StderrPipe(1)}
       ELSE UNCHANGED <<child, errBuf, open>>
    /\ UNCHANGED parseVars
    /\ UNCHANGED <<mode, pipeline, loop_i, w, processes, prev_stdout, errVol, errLeft,
                   returncode, opened, wiring, msg, failure, emitted>>

(***************************************************************************)
(* The child processes, followed until the executor returns.               *)
(***************************************************************************)
Blocked(k) == child[k] = "running" /\ errLeft[k] > 0 /\ errBuf[k] = PipeCap

ChildWriteErr ==
    \E k \in Stages :
        /\ pc # "done"
        /\ child[k] = "running"
        /\ errLeft[k] > 0
        /\ errBuf[k] < PipeCap
        /\ errLeft' = [errLeft EXCEPT ![k] = @ - 1]
        /\ errBuf' = [errBuf EXCEPT ![k] = @ + 1]
        /\ UNCHANGED parseVars
        /\ UNCHANGED <<mode, pipeline, pc, loop_i, w, processes, prev_stdout, child,
                       errVol, returncode, open, opened, wiring, ret, msg, failure,
                       interrupted, emitted>>

ChildExit ==
    \E k \in Stages, code \in ExitCodes :
        /\ pc # "done"
        /\ child[k] = "running"
        /\ errLeft[k] = 0
        /\ child' = [child EXCEPT ![k] = "exited"]
        /\ returncode' = (k :> code) @@ returncode
        /\ UNCHANGED parseVars
        /\ UNCHANGED <<mode, pipeline, pc, loop_i, w, processes, prev_stdout, errVol,
                       errLeft, errBuf, open, opened, wiring, ret, msg, failure,
                       interrupted, emitted>>

(***************************************************************************)
(* Specification of the executors.                                         *)
(***************************************************************************)
ParseIdle ==
    /\ tokens = <<>>
    /\ line = <<>>
    /\ parsed = None
    /\ ppc = "idle"

ExecStart ==
    /\ pc = "launch"
    /\ loop_i = 1
    /\ w = 1
    /\ processes = <<>>
    /\ prev_stdout = 0
    /\ child = [k \in Stages |-> "none"]
    /\ errVol = [k \in Stages |-> 0]
    /\ errLeft = [k \in Stages |-> 0]
    /\ errBuf = [k \in Stages |-> 0]
    /\ returncode = <<>>
    /\ open = {}
    /\ opened = {}
    /\ wiring = [k \in Stages |-> None]
    /\ ret = Pending
    /\ msg = NoMessage
    /\ failure = NoFailure
    /\ interrupted = FALSE
    /\ emitted = <<>>

Init ==
    /\ ParseIdle
    /\ mode \in {"external", "pipeline"}
    /\ pipeline \in SeqsUpTo(StageDescs, MaxStages) \ {<<>>}
    /\ mode = "external" => Len(pipeline) = 1
    /\ ExecStart

Next ==
    \/ PipelineInputMissing
    \/ PipelineOutputDenied
    \/ PipelinePopenFails
    \/ LaunchStage
    \/ WaitStage
    \/ ExternalInputMissing
    \/ ExternalOutputDenied
    \/ ExternalPopenFails
    \/ ExternalRun
    \/ ExternalDrain
    \/ ExternalFinish
    \/ Interrupt
    \/ ChildWriteErr
    \/ ChildExit

Spec == Init /\ [][Next]_vars

\* The executor is not called while the parser is examined.
ExecIdle ==
    /\ mode = "pipeline"
    /\ pipeline = <<>>
    /\ ExecStart

(***************************************************************************)
(* Specification of parse_command on token lists.                          *)
(***************************************************************************)
InitTokens ==
    /\ tokens \in SeqsUpTo(TokenSet, MaxTokens)
    /\ line = <<>>
    /\ parsed = None
    /\ ppc = "input"
    /\ ExecIdle

ParseCommand ==
    /\ ppc = "input"
    /\ parsed' = parse_tokens(tokens)
    /\ ppc' = "parsed"
    /\ UNCHANGED <<tokens, line>>
    /\ UNCHANGED execVars

NextTokens == ParseCommand

SpecTokens == InitTokens /\ [][NextTokens]_vars

(***************************************************************************)
(* Specification of parse_pipeline on command strings.                     *)
(***************************************************************************)
InitLine ==
    /\ line \in SeqsUpTo(LineChars, MaxLine)
    /\ tokens = <<>>
    /\ parsed = None
    /\ ppc = "input"
    /\ ExecIdle

ParsePipeline ==
    /\ ppc = "input"
    /\ parsed' = parse_pipeline(line)
    /\ ppc' = "parsed"
    /\ UNCHANGED <<tokens, line>>
    /\ UNCHANGED execVars

NextLine == ParsePipeline

SpecLine == InitLine /\ [][NextLine]_vars

(***************************************************************************)
(* Properties of parse_command (checked under SpecTokens).                 *)
(***************************************************************************)
IsRedirection(tok) == tok \in {GT, GTGT, LT}

\* Token i is a redirection operator that the scan reads as an operator: it
\* is not the command and not the filename taken by the operator before it.
RECURSIVE InOperatorPosition(_, _)
InOperatorPosition(toks, i) ==
    /\ i >= 2
    /\ i <= Len(toks)
    /\ IsRedirection(toks[i])
    /\ ~InOperatorPosition(toks, i - 1)

IsTarget(toks, i) == i >= 3 /\ InOperatorPosition(toks, i - 1)

RECURSIVE PlainTokensFrom(_, _)
PlainTokensFrom(toks, i) ==
    IF i > Len(toks) THEN <<>>
    ELSE (IF InOperatorPosition(toks, i) \/ IsTarget(toks, i) THEN <<>> ELSE <<toks[i]>>)
         \o PlainTokensFrom(toks, i + 1)

ParsedOk == ppc = "parsed" /\ ~IsError(parsed)

\* C6: when parse_command succeeds on a non-empty token list, command is the
\* first token and args is, in order, exactly the remaining tokens that are
\* neither a redirection operator in operator position nor the token right
\* after one.
C6_ArgsAreThePlainTokens ==
    (ParsedOk /\ tokens # <<>>) =>
        /\ parsed.command = tokens[1]
        /\ parsed.args = PlainTokensFrom(tokens, 2)

\* C6 witness: a successful parse with two arguments around a redirection.
C6_Witness ==
    /\ ParsedOk
    /\ Len(parsed.args) = 2
    /\ parsed.args[1] # parsed.args[2]
    /\ \E i \in 2..Len(tokens) : InOperatorPosition(tokens, i) /\ i < Len(tokens) - 1

OutputOps(toks) ==
    {i \in 2..Len(toks) : InOperatorPosition(toks, i) /\ toks[i] \in {GT, GTGT}}
InputOps(toks) ==
    {i \in 2..Len(toks) : InOperatorPosition(toks, i) /\ toks[i] = LT}
Last(S) == CHOOSE i \in S : \A j \in S : j <= i

\* C7: with one or more output redirections, output_file is the target of
\* the last one and append is true exactly when that last operator is '>>';
\* input_file is the target of the last '<'.
C7_LastRedirectionWins ==
    ParsedOk =>
        /\ OutputOps(tokens) # {} =>
              /\ parsed.output_file = tokens[Last(OutputOps(tokens)) + 1]
              /\ parsed.append = (tokens[Last(OutputOps(tokens))] = GTGT)
        /\ InputOps(tokens) # {} =>
              parsed.input_file = tokens[Last(InputOps(tokens)) + 1]

MissingFilenameText == "Missing filename after"
IsMissingFilename(r) == IsError(r) /\ r.error[1] = MissingFilenameText

DanglingOperator(toks) == InOperatorPosition(toks, Len(toks))

\* C8: parse_command returns the missing-filename error naming the operator,
\* and nothing else, exactly when the last token is a redirection operator
\* in operator position.
C8_MissingFilenameExactlyWhenDangling ==
    ppc = "parsed" =>
        /\ DanglingOperator(tokens) =>
              parsed = [error |-> <<MissingFilenameText, tokens[Len(tokens)]>>]
        /\ ~DanglingOperator(tokens) => ~IsMissingFilename(parsed)

\* C8 witness: a parse that ends on a dangling '>>' after an earlier
\* complete redirection.
C8_Witness ==
    /\ ppc = "parsed"
    /\ DanglingOperator(tokens)
    /\ tokens[Len(tokens)] = GTGT
    /\ Len(tokens) >= 4
    /\ InOperatorPosition(tokens, 2)
    /\ IsMissingFilename(parsed)

(***************************************************************************)
(* Properties of parse_pipeline (checked under SpecLine).                  *)
(***************************************************************************)
NumBars(s) == Cardinality({i \in 1..Len(s) : s[i] = BAR})

\* What one '|'-delimited segment yields on its own.
SegmentResult(seg) ==
    IF strip(seg) = <<>> THEN EmptyInPipeline ELSE parse_command(strip(seg))

BadSegments(segs) == {k \in 1..Len(segs) : IsError(SegmentResult(segs[k]))}
First(S) == CHOOSE i \in S : \A j \in S : i <= j

\* C9: parse_pipeline returns an error or a pipeline, never both; the error
\* is that of the first empty or unparsable segment, with no partial list;
\* otherwise there is exactly one descriptor per segment, in segment order.
C9_PipelineAllOrNothing ==
    ppc = "parsed" =>
        LET segs == split(line)
            bad == BadSegments(segs)
        IN  /\ DOMAIN parsed \in {{"error"}, {"pipeline"}}
            /\ bad # {} => parsed = SegmentResult(segs[First(bad)])
            /\ bad = {} =>
                  /\ DOMAIN parsed = {"pipeline"}
                  /\ Len(parsed.pipeline) = NumBars(line) + 1
                  /\ \A k \in 1..Len(segs) : parsed.pipeline[k] = SegmentResult(segs[k])

\* C9 witness: the first segment parses, a later one is the first bad one.
C9_Witness ==
    /\ ppc = "parsed"
    /\ IsError(parsed)
    /\ NumBars(line) >= 1
    /\ First(BadSegments(split(line))) >= 2

(***************************************************************************)
(* Properties of the executors (checked under Spec).                       *)
(***************************************************************************)
Done == pc = "done"
Started(k) == child[k] # "none"
LaunchFailed == failure.kind \in PopenErrors

\* C1: the code returned is 127 when a stage's program is not found, 126
\* when launching a stage is denied, 1 for another launch error, and the
\* last stage's exit code when every stage of a multi-stage pipeline was
\* started and has terminated.
C1_ExitStatusConvention ==
    (Done /\ ~interrupted) =>
        /\ failure.kind = "FileNotFoundError" => ret = Returned(EXIT_NOT_FOUND)
        /\ failure.kind = "PermissionError" => ret = Returned(EXIT_DENIED)
        /\ failure.kind = "OSError" => ret = Returned(EXIT_ERROR)
        /\ (failure = NoFailure /\ mode = "pipeline" /\ Len(pipeline) >= 2) =>
              ret = Returned(returncode[Len(pipeline)])

\* C2: when launching stage k of a pipeline fails, no later stage has been
\* started and every earlier stage has been waited on when execute_pipeline
\* returns.
C2_LaunchFailureReapsUpstream ==
    (Done /\ mode = "pipeline" /\ LaunchFailed) =>
        \A k \in Stages :
            /\ k > failure.stage => ~Started(k)
            /\ k < failure.stage => child[k] = "reaped"

\* C3: when an executor returns (normally, on a missing input file, on a
\* launch failure or on another error), the parent holds no handle it
\* opened during the call.
C3_NoHandleLeftOpen ==
    (Done /\ ~interrupted) => open = {}

\* C4: when stage 0's input file does not exist, no process is started and
\* the failure reported is an input-not-found error naming the path, which
\* differs from the program-not-found outcome.
C4_InputMissingIsReported ==
    (Done /\ failure.kind = "input_missing") =>
        /\ \A k \in Stages : ~Started(k)
        /\ msg = [text |-> "Input file not found: ", about |-> pipeline[1].input_file]
        /\ ret # Returned(EXIT_NOT_FOUND)

\* C5: when the parent is interrupted during a call, no started child is
\* left running or unreaped when control leaves the executor.
C5_InterruptReapsChildren ==
    (Done /\ interrupted) => \A k \in Stages : Started(k) => child[k] = "reaped"

\* C10: the parent is never blocked in wait on a child that is itself
\* blocked writing standard-error text into a full pipe.
C10_NoStderrDeadlock ==
    ~(/\ mode = "pipeline"
      /\ pc = "wait"
      /\ w <= Len(processes)
      /\ Blocked(processes[w]))

(***************************************************************************)
(* Ordering, pipe release and wiring in execute_pipeline (under Spec).     *)
(***************************************************************************)
InPipeline == mode = "pipeline"
Waited == {k \in Stages : child[k] = "reaped"}
AllStarted == \A k \in Stages : Started(k)

\* The stages 1..n that wrote standard-error text, in stage order.
RECURSIVE WritersUpTo(_)
WritersUpTo(n) ==
    IF n = 0 THEN <<>>
    ELSE WritersUpTo(n - 1) \o (IF errVol[n] > 0 THEN <<n>> ELSE <<>>)

\* C11: no stage is waited on before the last stage has been started; the
\* stages waited on so far are the first ones in stage order; and the
\* standard-error text printed so far is theirs, in stage order, whatever
\* the order in which the children exited.
C11_WaitsFollowStageOrder ==
    InPipeline =>
        /\ (pc = "wait" \/ Waited # {}) => AllStarted
        /\ Waited = 1..Cardinality(Waited)
        /\ pc = "wait" => Waited = 1..(w - 1)
        /\ emitted = WritersUpTo(Cardinality(Waited))

\* C11 witness: the first stage has been waited on and its text printed
\* while the second, which also wrote text, has exited and awaits its turn.
C11_Witness ==
    /\ InPipeline
    /\ pc = "wait"
    /\ w = 2
    /\ emitted = <<1>>
    /\ child[2] = "exited"
    /\ errVol[2] > 0

StdoutPipesHeld == {h \in open : h.kind = "stdout"}

\* C12: once stage k+1 has been started the parent no longer holds the pipe
\* end of stage k's standard output, which it did open; once all stages are
\* started it holds no inter-stage pipe end at all.
C12_PipeEndReleasedAfterHandOff ==
    InPipeline =>
        /\ \A k \in Stages :
              (k + 1 \in Stages /\ Started(k + 1)) =>
                  /\ StdoutPipe(k) \in opened
                  /\ StdoutPipe(k) \notin open
        /\ \A h \in StdoutPipesHeld : h.mode = "r" /\ h.stage = loop_i - 1
        /\ AllStarted => StdoutPipesHeld = {}

\* C12 witness: two stages are started and the pipe between them, opened
\* by the parent, is no longer held by it.
C12_Witness ==
    /\ InPipeline
    /\ Len(pipeline) >= 2
    /\ Started(2)
    /\ StdoutPipe(1) \in opened
    /\ StdoutPipe(1) \notin open

FilesOpened(kind) == {h \in opened : h.kind = kind}

\* C13: for every started stage k of an N-stage pipeline, stdin is the
\* input file exactly when k is the first stage and input_file is set, and
\* is the previous stage's stdout pipe when k is not the first; stdout is a
\* new pipe when k is not the last, and is the output file exactly when k is
\* the last and output_file is set; no file is opened for input_file of
\* another stage or output_file of a stage that is not the last.
C13_StageWiring ==
    InPipeline =>
        /\ \A k \in Stages :
              Started(k) =>
                  /\ wiring[k].stdin = InputHandle
                        <=> (k = 1 /\ pipeline[1].input_file # None)
                  /\ k > 1 => wiring[k].stdin = StdoutPipe(k - 1)
                  /\ (k = 1 /\ pipeline[1].input_file = None) => wiring[k].stdin = None
                  /\ k < Len(pipeline) => wiring[k].stdout = StdoutPipe(k)
                  /\ wiring[k].stdout
                        = Handle("output_file", k, IF pipeline[k].append THEN "a" ELSE "w")
                        <=> (k = Len(pipeline) /\ pipeline[k].output_file # None)
                  /\ (k = Len(pipeline) /\ pipeline[k].output_file = None) =>
                        wiring[k].stdout = None
        /\ \A h \in FilesOpened("input_file") :
              h.stage = 1 /\ pipeline[1].input_file # None
        /\ \A h \in FilesOpened("output_file") :
              /\ h.stage = Len(pipeline)
              /\ pipeline[h.stage].output_file # None
              /\ h.mode = (IF pipeline[h.stage].append THEN "a" ELSE "w")

\* C13 witness: both stages are started, the first names an output file and
\* the second an input file, and no file has been opened for either.
C13_Witness ==
    /\ InPipeline
    /\ Len(pipeline) = 2
    /\ Started(2)
    /\ pipeline[1].output_file # None
    /\ pipeline[2].input_file # None
    /\ pipeline[1].input_file = None
    /\ pipeline[2].output_file = None
    /\ opened = {StdoutPipe(1), StderrPipe(1), StderrPipe(2)}

\* C14: when stage 0's input file does not exist, no output file has been
\* opened when the executor returns.
C14_OutputUntouchedWhenInputMissing ==
    (Done /\ failure.kind = "input_missing") => FilesOpened("output_file") = {}

\* C14 witness: the input file is missing and the command, or the last
\* stage, names an output file.
C14_Witness ==
    /\ Done
    /\ failure.kind = "input_missing"
    /\ pipeline[Len(pipeline)].output_file # None

====
